---- MODULE Spec2Model ----
(***************************************************************************)
(* Verification model of the SRE agent's two aggregation pipelines:        *)
(*   src/github_repo_watcher.py        (repository monitor)                *)
(*   src/jira_support_board_watcher.py (support-board watcher)             *)
(***************************************************************************)
EXTENDS Integers, Sequences, FiniteSets, TLC

(***************************************************************************)
(* Bounds of the model.                                                    *)
(***************************************************************************)
MaxRepos == 3
MaxWorkersGiven == 2
MaxComments == 3
MaxCalls == 3
MaxIssues == 3
MaxAccounts == 2
MaxListing == 2
MaxPageSize == 2
MaxTime == 2
MaxOffset == 1
MaxListed == 1
MaxPagedItems == 6
MaxLines == 3
MaxFailPage == 3
MaxGroupRequests == 3

\* format_report: "> 3 days since last comment"
AttentionDays == 3

\* GitHubRepoMonitor.__init__(max_workers: int = 10)
DefaultMaxWorkers == 10

RepoIds == 1..MaxRepos
NoExit == 0 - 1     \* the process has not exited / main has not returned
None == "None"
NoError == "absent"

VARIABLES
    workers_arg,   \* the arguments main() gives GitHubRepoMonitor: <<>> or <<n>>
    max_workers,   \* GitHubRepoMonitor.max_workers
    parallel,      \* run(parallel=...)
    repos,         \* the sorted entity list run() hands to the analysis
    outcome,       \* stubbed per-entity analysis outcome (remote answers or an exception)
    pc,            \* position of main() and run(): "start", "constructed", "found",
                   \* "dispatch", "interrupted", "analyzed", "raised", "reported",
                   \* "exited"
    task,          \* future of each submitted repo: "queued", "running", "finished", "collected"
    results,       \* the list `results`
    completed,     \* the counter `completed`
    collected,     \* history: the repos in the order as_completed yielded them
    report         \* what generate_report computed from `results`

monitorVars == <<workers_arg, max_workers, parallel, repos, outcome, pc, task, results,
                 completed, collected, report>>

VARIABLES
    client_call,   \* the Remote Query Client call in hand: function and remote answer
    client_result  \* how that call ended: returned value, exception, or no return

clientVars == <<client_call, client_result>>

VARIABLES
    team_id,          \* JiraBoardWatcher.team_id, by its kind of lookup
    team_members,     \* JiraBoardWatcher._team_members: None or a list (the cache)
    call,             \* the calls of _get_team_members / _is_team_member
    resolutions,      \* history: membership resolutions begun (cache found unset)
    requests_issued,  \* history: HTTP requests issued by membership resolution
    team_aborted,     \* an exception no caller handles has ended the run
    membership        \* history: "unset", "resolved" (a fetch succeeded), or "unknown"
                      \* (no team id configured, or the fetch failed and [] was cached)

teamVars == <<team_id, team_members, call, resolutions, requests_issued, team_aborted,
              membership>>

VARIABLES
    issues,        \* what _search_jira returned to get_items_by_comment_activity
    now,           \* datetime.now() of the run, in days
    items,         \* the list get_items_by_comment_activity returned
    act_pc,        \* "start", "done", "formatted", or "raised" when an exception left the call
    activity_report  \* what format_report computed from items_by_comment_activity

activityVars == <<issues, now, items, act_pc, activity_report>>

VARIABLES
    auth,          \* what `gh auth status` does in _check_gh_cli
    all_repos,     \* what get_all_repos returns
    filter_repos,  \* run(filter_repos=...): the --filter substrings, each given by the
                   \* set of repos whose name contains it
    enumerated,    \* history: run() has queried the entity list
    exit_code      \* the exit code of the repository-monitor process

mainVars == <<auth, all_repos, filter_repos, enumerated, exit_code>>

VARIABLES
    env,           \* which of JIRA_URL, JIRA_EMAIL, JIRA_API_TOKEN are set
    searched,      \* stub: the number of issues each search of the run returns
    customer_comments,  \* stub: the comments check_for_customer_comments returns per item
    triage_report, \* the TriageReport of generate_triage_report
    board_pc,      \* position of main(): "start", "constructed", "generated", "exited", "raised"
    board_exit     \* the value main() returned

boardVars == <<env, searched, customer_comments, triage_report, board_pc, board_exit>>

VARIABLES
    paging,        \* one paginated member listing and the list resolved from it
    group_loop     \* the `while True` loop of _get_group_members, request by request

pagingVars == <<paging, group_loop>>

VARIABLES
    json_output,   \* run(json_output=...)
    output_file,   \* run(output_file=...): a path, <<>> when none is given
    quiet,         \* run(quiet=...)
    printed,       \* the document run() printed to stdout
    files,         \* the files run() wrote: path -> document
    progress       \* the completion counts at which "Progress:" was printed to stderr

outputVars == <<json_output, output_file, quiet, printed, files, progress>>

vars == <<monitorVars, clientVars, teamVars, activityVars, mainVars, boardVars, pagingVars,
          outputVars>>

(***************************************************************************)
(* Helpers                                                                 *)
(***************************************************************************)
Min(S) == CHOOSE x \in S : \A y \in S : x <= y

RECURSIVE SetToSortedSeq(_)
SetToSortedSeq(S) ==
    IF S = {} THEN <<>>
    ELSE LET m == Min(S) IN <<m>> \o SetToSortedSeq(S \ {m})

Range(s) == {s[i] : i \in DOMAIN s}

\* Insertion step of a stable sort on positions: position x goes after every
\* position of s whose key is not greater than its own.
RECURSIVE InsertStable(_, _, _)
InsertStable(x, s, key) ==
    IF s = <<>> THEN <<x>>
    ELSE IF key[x] < key[Head(s)] THEN <<x>> \o s
    ELSE <<Head(s)>> \o InsertStable(x, Tail(s), key)

\* the positions 1..n ordered by ascending key, equal keys in position order
RECURSIVE SortedPositions(_, _)
SortedPositions(n, key) ==
    IF n = 0 THEN <<>>
    ELSE InsertStable(n, SortedPositions(n - 1, key), key)

\* list.sort(key=...) / sorted(key=...): a stable sort of s by ascending key,
\* key being the sequence of the elements' integer keys
StableSort(s, key) ==
    LET p == SortedPositions(Len(s), key) IN [i \in DOMAIN s |-> s[p[i]]]

(***************************************************************************)
(* Remote Query Client                                                     *)
(***************************************************************************)
\* What subprocess.run(['gh', ...], timeout=30, check=True) can do.
GhAnswer(kind, stdout, stderr) == [kind |-> kind, stdout |-> stdout, stderr |-> stderr]
GhAnswers ==
    {GhAnswer("exit0", out, "") : out \in {"", "garbage", "json_object", "json_list"}}
    \cup {GhAnswer("nonzero", "", err) : err \in {"HTTP 404: not found", "HTTP 401", "other"}}
    \cup {GhAnswer(k, "", "") : k \in {"no_response", "gh_missing"}}

\* How a call ends: it returns a text or None (text), or a list (list); it
\* raises (text names the exception); or it never returns.
Returned(t)     == [status |-> "returned", text |-> t, list |-> <<>>]
ReturnedList(l) == [status |-> "returned", text |-> "list", list |-> l]
RaisedOut(e)    == [status |-> "raised", text |-> e, list |-> <<>>]
Blocked         == [status |-> "blocked", text |-> None, list |-> <<>>]

\* _run_gh_command: stdout on exit 0; None on CalledProcessError, on
\* TimeoutExpired (no answer within 30 s) and on any other Exception
RunGhCommand(a) ==
    IF a.kind = "exit0" THEN Returned(a.stdout) ELSE Returned(None)

\* _run_gh_api: json.loads of a non-empty output, None when it does not decode
RunGhApi(a) ==
    LET output == RunGhCommand(a).text
    IN  IF output # None /\ output # ""
        THEN IF output = "garbage" THEN Returned(None) ELSE Returned(output)
        ELSE Returned(None)

\* What a listing query of the repository monitor gets from _run_gh_command:
\* nothing (None or ""), or an output of records. A record is a line of the
\* --jq output (commits, alerts) or an element of the JSON array (pull requests).
\*   "ok"            a well-formed record inside the time window
\*   "undecodable"   a line json.loads rejects
\*   "null_message"  a commit whose message is null
\*   "old"           a pull request updated before `since`
\*   "missing_field" a pull request without one of the fields read
\*   "bad_timestamp" a pull request whose updatedAt fromisoformat rejects
\*   "no_cve"        an alert without cve_id
\* "garbage" is an output that is no JSON document at all.
CommitShapes == {"ok", "undecodable", "null_message"}
PrShapes == {"ok", "old", "missing_field", "bad_timestamp"}
AlertShapes == {"ok", "undecodable", "no_cve"}
MalformedShapes == {"undecodable", "null_message", "missing_field", "bad_timestamp"}

QueryOutput(kind, lines) == [kind |-> kind, lines |-> lines]
LinesOver(shapes) == UNION {[1..n -> shapes] : n \in 1..MaxLines}
QueryOutputs(shapes) ==
    {QueryOutput("none", <<>>)} \cup {QueryOutput("records", l) : l \in LinesOver(shapes)}

\* the records appended so far, by their position in the output
RECURSIVE CommitsLoop(_, _, _)
CommitsLoop(lines, i, commits) ==
    IF i > Len(lines) THEN ReturnedList(commits)
    ELSE CASE lines[i] = "undecodable"  -> CommitsLoop(lines, i + 1, commits)
           [] lines[i] = "null_message" -> RaisedOut("AttributeError")
           [] OTHER                     -> CommitsLoop(lines, i + 1, Append(commits, i))

\* get_recent_commits: [] without output; else the decodable lines
GetRecentCommits(a) ==
    IF a.kind = "none" THEN ReturnedList(<<>>) ELSE CommitsLoop(a.lines, 1, <<>>)

RECURSIVE PrsLoop(_, _, _)
PrsLoop(all_prs, i, prs) ==
    IF i > Len(all_prs) THEN ReturnedList(prs)
    ELSE IF all_prs[i] = "ok" THEN PrsLoop(all_prs, i + 1, Append(prs, i))
         ELSE PrsLoop(all_prs, i + 1, prs)

\* get_recent_prs: [] without output or when the output does not decode; else
\* the pull requests of the window that have every field
GetRecentPrs(a) ==
    IF a.kind \in {"none", "garbage"} THEN ReturnedList(<<>>) ELSE PrsLoop(a.lines, 1, <<>>)

RECURSIVE AlertsLoop(_, _, _)
AlertsLoop(lines, i, alerts) ==
    IF i > Len(lines) THEN ReturnedList(alerts)
    ELSE IF lines[i] = "undecodable" THEN AlertsLoop(lines, i + 1, alerts)
         ELSE AlertsLoop(lines, i + 1, Append(alerts, i))

\* get_dependabot_alerts: [] without output; else the decodable lines
GetDependabotAlerts(a) ==
    IF a.kind = "none" THEN ReturnedList(<<>>) ELSE AlertsLoop(a.lines, 1, <<>>)

\* A comment of an issue: the author's e-mail domain ("" when the author has
\* no emailAddress) and its 'created' timestamp (NoTimestamp when absent).
NoTimestamp == 0
InternalDomain == "cirium.com"
EmailDomains == {"", "example.com", InternalDomain}
Comments == [email : EmailDomains, created : {NoTimestamp} \cup (1..MaxTime)]
CommentLists == UNION {[1..n -> Comments] : n \in 0..MaxComments}

\* What requests.get(url, auth, headers, params) can do (no timeout is given).
HttpAnswer(kind, comments) == [kind |-> kind, comments |-> comments]
HttpFailures == {"connection_error", "http_401", "http_404", "http_500"}
HttpAnswers ==
    {HttpAnswer(k, <<>>) : k \in HttpFailures \cup
         {"no_response", "ok_not_json", "ok_json_not_object", "ok_object_no_fields"}}

\* response.json() on a body that is not JSON raises
\* requests.exceptions.JSONDecodeError, a RequestException: the handler of the
\* calling function runs and its value is returned
JsonErrorOutcomes(onRequestException) == {onRequestException}

\* _search_jira: the issues of the answer; [] on a RequestException
SearchJira(a, found) ==
    CASE a.kind \in HttpFailures        -> {ReturnedList(<<>>)}
      [] a.kind = "no_response"          -> {Blocked}
      [] a.kind = "ok_not_json"          -> JsonErrorOutcomes(ReturnedList(<<>>))
      [] a.kind = "ok_json_not_object"   -> {RaisedOut("AttributeError")}
      [] a.kind = "ok_object_no_fields"  -> {ReturnedList(<<>>)}
      [] a.kind = "ok_object"            -> {ReturnedList(found)}

IsExternal(email) == email # "" /\ email # InternalDomain

\* the inner loop over `reply`: "yes" when an internal comment is later than t,
\* "no" when the loop ends without one, "raise" when fromisoformat meets a
\* comment without timestamp first
RECURSIVE ScanRepliesSameTimeCounts(_, _)
ScanRepliesSameTimeCounts(replies, t) ==
    IF replies = <<>> THEN "no"
    ELSE LET reply == Head(replies)
         IN  IF reply.created = NoTimestamp THEN "raise"
             ELSE IF reply.email = InternalDomain /\ reply.created >= t THEN "yes"
             ELSE ScanRepliesSameTimeCounts(Tail(replies), t)

RECURSIVE ScanReplies(_, _)
ScanReplies(replies, t) ==
    IF replies = <<>> THEN "no"
    ELSE LET reply == Head(replies)
         IN  IF reply.created = NoTimestamp THEN "raise"
             ELSE IF reply.email = InternalDomain /\ reply.created > t THEN "yes"
             ELSE ScanReplies(Tail(replies), t)

\* the outer loop over `comment`, from position i on; unack are the positions
\* of the comments appended to `unacknowledged` so far
RECURSIVE ScanComments(_, _, _)
ScanComments(comments, i, unack) ==
    IF i > Len(comments) THEN ReturnedList(unack)
    ELSE IF ~IsExternal(comments[i].email) THEN ScanComments(comments, i + 1, unack)
    ELSE IF comments[i].created = NoTimestamp THEN RaisedOut("ValueError")
    ELSE LET has_reply == ScanReplies(comments, comments[i].created)
         IN  CASE has_reply = "raise" -> RaisedOut("ValueError")
               [] has_reply = "yes"   -> ScanComments(comments, i + 1, unack)
               [] has_reply = "no"    -> ScanComments(comments, i + 1, Append(unack, i))

\* check_for_customer_comments: the unacknowledged comments (by position);
\* [] on a RequestException
CheckForCustomerComments(a) ==
    CASE a.kind \in HttpFailures        -> {ReturnedList(<<>>)}
      [] a.kind = "no_response"          -> {Blocked}
      [] a.kind = "ok_not_json"          -> JsonErrorOutcomes(ReturnedList(<<>>))
      [] a.kind = "ok_json_not_object"   -> {RaisedOut("AttributeError")}
      [] a.kind = "ok_object_no_fields"  -> {ReturnedList(<<>>)}
      [] a.kind = "ok_object"            -> {ScanComments(a.comments, 1, <<>>)}

NoCall == [fn |-> "none", answer |-> HttpAnswer("none", <<>>)]

ClientInit ==
    /\ client_call = NoCall
    /\ client_result = Returned(None)

\* one call of a Remote Query Client function, for every function and every
\* remote answer (the functions keep no state between calls)
CallRunGhCommand ==
    /\ client_call = NoCall
    /\ \E a \in GhAnswers :
        /\ client_call' = [fn |-> "_run_gh_command", answer |-> a]
        /\ client_result' = RunGhCommand(a)

CallRunGhApi ==
    /\ client_call = NoCall
    /\ \E a \in GhAnswers :
        /\ client_call' = [fn |-> "_run_gh_api", answer |-> a]
        /\ client_result' = RunGhApi(a)

CallSearchJira ==
    /\ client_call = NoCall
    /\ \E a \in HttpAnswers \cup {HttpAnswer("ok_object", <<>>)}, n \in 0..MaxComments :
        /\ client_call' = [fn |-> "_search_jira", answer |-> a]
        /\ client_result' \in SearchJira(a, [i \in 1..n |-> i])

CallCheckForCustomerComments ==
    /\ client_call = NoCall
    /\ \E a \in HttpAnswers \cup {HttpAnswer("ok_object", cs) : cs \in CommentLists} :
        /\ client_call' = [fn |-> "check_for_customer_comments", answer |-> a]
        /\ client_result' \in CheckForCustomerComments(a)

CallGetRecentCommits ==
    /\ client_call = NoCall
    /\ \E a \in QueryOutputs(CommitShapes) :
        /\ client_call' = [fn |-> "get_recent_commits", answer |-> a]
        /\ client_result' = GetRecentCommits(a)

CallGetRecentPrs ==
    /\ client_call = NoCall
    /\ \E a \in QueryOutputs(PrShapes) \cup {QueryOutput("garbage", <<>>)} :
        /\ client_call' = [fn |-> "get_recent_prs", answer |-> a]
        /\ client_result' = GetRecentPrs(a)

CallGetDependabotAlerts ==
    /\ client_call = NoCall
    /\ \E a \in QueryOutputs(AlertShapes) :
        /\ client_call' = [fn |-> "get_dependabot_alerts", answer |-> a]
        /\ client_result' = GetDependabotAlerts(a)

ClientNext ==
    \/ CallRunGhCommand
    \/ CallRunGhApi
    \/ CallSearchJira
    \/ CallCheckForCustomerComments
    \/ CallGetRecentCommits
    \/ CallGetRecentPrs
    \/ CallGetDependabotAlerts

(***************************************************************************)
(* Repository monitor: entity enumeration, analysis, dispatch              *)
(***************************************************************************)
\* __init__: self.max_workers = max_workers, 10 when the caller gives none
\* (args is the tuple of the arguments given: <<>> or <<n>>)
InitMaxWorkers(args) == IF args = <<>> THEN DefaultMaxWorkers ELSE args[1]

\* get_all_repos: sorted(list(set(topic repos) | set(manifest repos)))
GetAllRepos(topicRepos, fileRepos) == SetToSortedSeq(topicRepos \cup fileRepos)

\* every list get_all_repos can return
EntityLists ==
    {GetAllRepos(topicRepos, fileRepos) :
        topicRepos \in SUBSET RepoIds, fileRepos \in SUBSET RepoIds}

\* The stubbed outcomes of one entity's analysis: the three query results of
\* analyze_repo, or an exception raised while they are assembled.
Raises    == [raises |-> TRUE,  commits |-> <<>>,     prs |-> <<>>,     alerts |-> <<>>]
Quiet     == [raises |-> FALSE, commits |-> <<>>,     prs |-> <<>>,     alerts |-> <<>>]
ActiveVul == [raises |-> FALSE, commits |-> <<"c1">>, prs |-> <<>>,     alerts |-> <<"high">>]
ActivePr  == [raises |-> FALSE, commits |-> <<>>,     prs |-> <<"p1">>, alerts |-> <<>>]
Outcomes  == {Raises, Quiet, ActiveVul, ActivePr}

\* further outcomes, used where the report is computed
VulOnly1   == [raises |-> FALSE, commits |-> <<>>,     prs |-> <<>>, alerts |-> <<"low">>]
VulOnly2   == [raises |-> FALSE, commits |-> <<>>,     prs |-> <<>>, alerts |-> <<"critical", "high">>]
ActiveVul2 == [raises |-> FALSE, commits |-> <<"c1">>, prs |-> <<>>, alerts |-> <<"medium", "high">>]
\* an alert whose advisory carries no severity (jq gives null)
VulUnrated == [raises |-> FALSE, commits |-> <<>>,     prs |-> <<>>, alerts |-> <<None>>]
ReportOutcomes == Outcomes \cup {VulOnly1, VulOnly2, ActiveVul2, VulUnrated}

\* has_activity taken from the commits alone
AnalyzeRepoActivityFromCommits(repo, o) ==
    [repo                |-> repo,
     recent_commits      |-> o.commits,
     recent_prs          |-> o.prs,
     dependabot_alerts   |-> o.alerts,
     has_activity        |-> (Len(o.commits) > 0),
     has_vulnerabilities |-> (Len(o.alerts) > 0),
     error               |-> NoError]

\* analyze_repo: the per-entity result record
AnalyzeRepo(repo, o) ==
    [repo                |-> repo,
     recent_commits      |-> o.commits,
     recent_prs          |-> o.prs,
     dependabot_alerts   |-> o.alerts,
     has_activity        |-> (Len(o.commits) > 0 \/ Len(o.prs) > 0),
     has_vulnerabilities |-> (Len(o.alerts) > 0),
     error               |-> NoError]

\* the synthetic result appended in the except branch of analyze_repos_parallel
FailedResult(repo) ==
    [repo                |-> repo,
     recent_commits      |-> <<>>,
     recent_prs          |-> <<>>,
     dependabot_alerts   |-> <<>>,
     has_activity        |-> FALSE,
     has_vulnerabilities |-> FALSE,
     error               |-> "err"]

\* body of the as_completed loop: future.result() appended, or the failed result
CollectFutureNoIsolation(res, repo, o) ==
    IF o.raises THEN res ELSE Append(res, AnalyzeRepo(repo, o))

CollectFuture(res, repo, o) ==
    IF o.raises THEN Append(res, FailedResult(repo))
    ELSE Append(res, AnalyzeRepo(repo, o))

\* the as_completed loop when the futures are collected in
\* submission order
RECURSIVE CollectInOrder(_, _, _)
CollectInOrder(res, rs, outc) ==
    IF rs = <<>> THEN res
    ELSE CollectInOrder(CollectFuture(res, Head(rs), outc[Head(rs)]), Tail(rs), outc)

\* results.sort(key=lambda x: x['repo'])
SortByRepoSkipped(res) == res

SortByRepoAfterFirst(res) ==
    IF res = <<>> THEN res
    ELSE <<Head(res)>> \o StableSort(Tail(res), [i \in DOMAIN Tail(res) |-> Tail(res)[i].repo])

SortByRepo(res) == StableSort(res, [i \in DOMAIN res |-> res[i].repo])

\* a pool none of whose workers ever takes a task
WorkerFreeNever(running, workers) == FALSE

\* ThreadPoolExecutor(max_workers=...): a queued task starts only on a free worker
WorkerFreeUnbounded(running, workers) == TRUE

WorkerFree(running, workers) == running < workers

Running == {i \in DOMAIN task : task[i] = "running"}
Queued  == {i \in DOMAIN task : task[i] = "queued"}

(***************************************************************************)
(* Repository monitor: generate_report                                     *)
(***************************************************************************)
Reverse(s) == [i \in DOMAIN s |-> s[Len(s) + 1 - i]]

RECURSIVE SumSeq(_)
SumSeq(s) == IF s = <<>> THEN 0 ELSE Head(s) + SumSeq(Tail(s))

HasError(r) == r.error # NoError
NumAlerts(r) == Len(r.dependabot_alerts)

\* sorted(bucket, key=lambda x: len(x['dependabot_alerts']), reverse=True):
\* descending by alert count, equal counts in their original order
SortByAlertsDescReversedTies(bucket) ==
    Reverse(StableSort(bucket, [i \in DOMAIN bucket |-> NumAlerts(bucket[i])]))

SortByAlertsDesc(bucket) ==
    StableSort(bucket, [i \in DOMAIN bucket |-> 0 - NumAlerts(bucket[i])])

IsHighPriority(r)   == r.has_activity /\ r.has_vulnerabilities
IsVulnerableOnly(r) == r.has_vulnerabilities /\ ~r.has_activity
IsActiveClean(r)    == r.has_activity /\ ~r.has_vulnerabilities

IsQuietIgnoringError(r) == ~r.has_activity /\ ~r.has_vulnerabilities

IsQuiet(r) == ~r.has_activity /\ ~r.has_vulnerabilities /\ ~HasError(r)

\* severity_counts: a defaultdict(int), holding the severities that occur
AllAlerts(res) ==
    UNION {{<<i, k>> : k \in DOMAIN res[i].dependabot_alerts} : i \in DOMAIN res}

\* only the first alert of each entity counted
SeverityCountsFirstAlertOnly(res) ==
    LET firsts == {i \in DOMAIN res : res[i].dependabot_alerts # <<>>}
        occ == {res[i].dependabot_alerts[1] : i \in firsts}
    IN  [sev \in occ |-> Cardinality({i \in firsts : res[i].dependabot_alerts[1] = sev})]

SeverityCounts(res) ==
    LET occ == {res[x[1]].dependabot_alerts[x[2]] : x \in AllAlerts(res)}
    IN  [sev \in occ |->
            Cardinality({x \in AllAlerts(res) : res[x[1]].dependabot_alerts[x[2]] = sev})]

\* for severity in ['critical', 'high', 'medium', 'low']:
\*     if severity in severity_counts: one line with the count
SeverityOrder == <<"critical", "high", "medium", "low">>

SeverityLines(counts) ==
    LET shown == SelectSeq(SeverityOrder, LAMBDA sev : sev \in DOMAIN counts)
    IN  [k \in DOMAIN shown |-> [severity |-> shown[k], count |-> counts[shown[k]]]]

NoReport ==
    [generated |-> FALSE, total_repos |-> 0, active_repos |-> 0, vulnerable_repos |-> 0,
     total_alerts |-> 0, errors |-> 0, severity_counts |-> <<>>,
     severity_section |-> FALSE, severity_lines |-> <<>>,
     high_priority |-> <<>>, vulnerable_only |-> <<>>, active_clean |-> <<>>,
     quiet_repos |-> <<>>]

\* generate_report: the data the report text is built from, each bucket in
\* the order its entities are listed
GenerateReportData(res) ==
    [generated        |-> TRUE,
     total_repos      |-> Len(res),
     active_repos     |-> Cardinality({i \in DOMAIN res : res[i].has_activity}),
     vulnerable_repos |-> Cardinality({i \in DOMAIN res : res[i].has_vulnerabilities}),
     total_alerts     |-> SumSeq([i \in DOMAIN res |-> NumAlerts(res[i])]),
     errors           |-> Cardinality({i \in DOMAIN res : HasError(res[i])}),
     severity_counts  |-> SeverityCounts(res),
     severity_section |-> (DOMAIN SeverityCounts(res) # {}),
     severity_lines   |-> SeverityLines(SeverityCounts(res)),
     high_priority    |-> SortByAlertsDesc(SelectSeq(res, IsHighPriority)),
     vulnerable_only  |-> SortByAlertsDesc(SelectSeq(res, IsVulnerableOnly)),
     active_clean     |-> SelectSeq(res, IsActiveClean),
     quiet_repos      |-> SelectSeq(res, IsQuiet)]

\* the sequential fallback of run(): analyze each repo in order; an exception
\* of analyze_repo leaves the loop and run()
RECURSIVE SequentialResults(_, _)
SequentialResults(rs, outc) ==
    IF rs = <<>> THEN [raised |-> FALSE, results |-> <<>>]
    ELSE IF outc[Head(rs)].raises THEN [raised |-> TRUE, results |-> <<>>]
    ELSE LET rest == SequentialResults(Tail(rs), outc)
         IN  IF rest.raised THEN rest
             ELSE [raised |-> FALSE,
                   results |-> <<AnalyzeRepo(Head(rs), outc[Head(rs)])>> \o rest.results]

\* _check_gh_cli: what subprocess.run(['gh', 'auth', 'status'], timeout=10) does
AuthAnswers == {"ok", "nonzero", "gh_missing", "timeout"}

\* return result.returncode == 0; False on FileNotFoundError, TimeoutExpired
CheckGhCliAnyExit(a) == a \notin {"gh_missing", "timeout"}

CheckGhCli(a) == a = "ok"

\* the --filter arguments: none, or substrings (each the set of repos it occurs in)
FilterArgs == {<<>>, <<{}>>, <<{1}>>}

\* if filter_repos: repos = [r for r in repos if any(f in r for f in filter_repos)]
FilterRepos(rs, fs) ==
    IF fs = <<>> THEN rs
    ELSE SelectSeq(rs, LAMBDA r : \E i \in DOMAIN fs : r \in fs[i])

\* A path is the sequence of the pieces of its name; ".txt" is a piece of its own.
\* <<>> is the absent (None) or empty output_file, which `if output_file:` skips.
NoOutputFile == <<>>
OutputFiles == {NoOutputFile, <<"report", ".txt">>, <<"report", ".md">>, <<"report", ".json">>}

\* json_file = output_file.replace('.txt', '.json')
JsonFile(path) == [i \in DOMAIN path |-> IF path[i] = ".txt" THEN ".json" ELSE path[i]]

NoDocument == [kind |-> "none", results |-> <<>>, report |-> NoReport]

\* json.dumps(results, indent=2) / json.dump(results, f, indent=2): the list in its order
JsonDocument(res) == [kind |-> "json", results |-> res, report |-> NoReport]

\* the narrative text generate_report returned
ReportDocument(rep) == [kind |-> "report", results |-> <<>>, report |-> rep]

NoFiles == [p \in {} |-> NoDocument]

\* with open(path, 'w') as f: f.write(...)  -- the file is created or truncated
WriteFile(fs, path, doc) ==
    [p \in DOMAIN fs \cup {path} |-> IF p = path THEN doc ELSE fs[p]]

\* "if not quiet and (completed % 10 == 0 or completed == total)"
ProgressEvery == 10

\* whether the as_completed iteration that brought `done` completions prints
\* "Progress:": the print sits in the try block, after future.result() returned
ProgressPrinted(raised, q, done, total) ==
    ~raised /\ ~q /\ (done % ProgressEvery = 0 \/ done = total)

\* the options of run() as main() passes them; no --output, no --quiet (which
\* only silences the messages on stderr)
OutputInit ==
    /\ json_output \in BOOLEAN
    /\ output_file = NoOutputFile
    /\ quiet = FALSE
    /\ printed = NoDocument
    /\ files = NoFiles
    /\ progress = <<>>

\* run() called with every combination of --json and --output
ReportOutputInit ==
    /\ json_output \in BOOLEAN
    /\ output_file \in OutputFiles
    /\ quiet = FALSE
    /\ printed = NoDocument
    /\ files = NoFiles
    /\ progress = <<>>

\* analyze_repos_parallel(repos, days, quiet=quiet), before run() prints anything
DispatchOutputInit ==
    /\ json_output = FALSE
    /\ output_file = NoOutputFile
    /\ quiet \in BOOLEAN
    /\ printed = NoDocument
    /\ files = NoFiles
    /\ progress = <<>>

OutputIdle ==
    /\ json_output = FALSE
    /\ output_file = NoOutputFile
    /\ quiet = FALSE
    /\ printed = NoDocument
    /\ files = NoFiles
    /\ progress = <<>>

\* main() at its start: the remote answers of the run are fixed; the answers
\* no query asks for are left at their defaults
MonitorInit ==
    /\ workers_arg \in {<<>>} \cup {<<n>> : n \in 1..MaxWorkersGiven}
    /\ max_workers = InitMaxWorkers(workers_arg)
    /\ parallel \in BOOLEAN
    /\ auth \in AuthAnswers
    /\ all_repos \in EntityLists
    /\ filter_repos \in FilterArgs
    /\ outcome \in [RepoIds -> Outcomes]
    /\ \A r \in RepoIds \ Range(FilterRepos(all_repos, filter_repos)) : outcome[r] = Quiet
    /\ auth # "ok" => (all_repos = <<>> /\ filter_repos = <<>>)
    /\ repos = <<>>
    /\ enumerated = FALSE
    /\ exit_code = NoExit
    /\ pc = "start"
    /\ task = <<>>
    /\ results = <<>>
    /\ completed = 0
    /\ collected = <<>>
    /\ report = NoReport

\* GitHubRepoMonitor(max_workers=...): the constructor raises RuntimeError when
\* the probe fails, main prints it and exits with 1
Construct ==
    /\ pc = "start"
    /\ IF CheckGhCli(auth)
       THEN pc' = "constructed" /\ exit_code' = exit_code
       ELSE pc' = "exited" /\ exit_code' = 1
    /\ UNCHANGED <<workers_arg, max_workers, parallel, repos, outcome, task, results,
                   completed, collected, report, auth, all_repos, filter_repos, enumerated>>

\* run(): repos = self.get_all_repos(), then the filter
Enumerate ==
    /\ pc = "constructed"
    /\ repos' = FilterRepos(all_repos, filter_repos)
    /\ enumerated' = TRUE
    /\ pc' = "found"
    /\ UNCHANGED <<workers_arg, max_workers, parallel, outcome, task, results,
                   completed, collected, report, auth, all_repos, filter_repos, exit_code>>

\* main() after run(): the process ends with 0 when run() returned, with 1
\* when an exception left it (except Exception: sys.exit(1))
MainExit ==
    /\ pc \in {"reported", "raised"}
    /\ exit_code' = IF pc = "raised" THEN 1 ELSE 0
    /\ pc' = "exited"
    /\ UNCHANGED <<workers_arg, max_workers, parallel, repos, outcome, task, results,
                   completed, collected, report, auth, all_repos, filter_repos, enumerated>>

\* run(), parallel branch: analyze_repos_parallel up to executor.submit of every repo
SubmitAll ==
    /\ pc = "found" /\ parallel
    /\ completed' = 0
    /\ collected' = <<>>
    /\ IF repos = <<>>
       THEN /\ pc' = "analyzed"
            /\ results' = SortByRepo(<<>>)
            /\ task' = <<>>
       ELSE /\ pc' = "dispatch"
            /\ results' = <<>>
            /\ task' = [i \in DOMAIN repos |-> "queued"]
    /\ UNCHANGED <<workers_arg, max_workers, parallel, repos, outcome, report>>

\* a pool worker takes the oldest queued task (the executor's queue is FIFO);
\* the workers keep doing so while the executor shuts down
StartTask ==
    /\ pc \in {"dispatch", "interrupted"}
    /\ Queued # {}
    /\ WorkerFree(Cardinality(Running), max_workers)
    /\ task' = [task EXCEPT ![Min(Queued)] = "running"]
    /\ UNCHANGED <<workers_arg, max_workers, parallel, repos, outcome, pc, results, completed, collected, report>>

\* analyze_repo of task i returns or raises inside its worker: the future is done
FinishTask(i) ==
    /\ pc \in {"dispatch", "interrupted"}
    /\ task[i] = "running"
    /\ task' = [task EXCEPT ![i] = "finished"]
    /\ UNCHANGED <<workers_arg, max_workers, parallel, repos, outcome, pc, results, completed, collected, report>>

\* one iteration of `for future in as_completed(...)`; after the last one the
\* executor is left, the results are sorted and returned
Collect(i) ==
    /\ pc = "dispatch"
    /\ task[i] = "finished"
    /\ task' = [task EXCEPT ![i] = "collected"]
    /\ completed' = completed + 1
    /\ collected' = Append(collected, repos[i])
    /\ LET res == CollectFuture(results, repos[i], outcome[repos[i]])
       IN  IF \A j \in DOMAIN task : task'[j] = "collected"
           THEN /\ results' = SortByRepo(res)
                /\ pc' = "analyzed"
           ELSE /\ results' = res
                /\ pc' = pc
    /\ progress' = IF ProgressPrinted(outcome[repos[i]].raises, quiet, completed',
                                      Len(repos))
                   THEN Append(progress, completed')
                   ELSE progress
    /\ UNCHANGED <<workers_arg, max_workers, parallel, repos, outcome, report,
                   json_output, output_file, quiet, printed, files>>

\* KeyboardInterrupt reaches the main thread while it waits in as_completed: the
\* exception leaves the loop and enters ThreadPoolExecutor.__exit__, which is
\* shutdown(wait=True)
Interrupt ==
    /\ pc = "dispatch"
    /\ pc' = "interrupted"
    /\ UNCHANGED <<workers_arg, max_workers, parallel, repos, outcome, task, results,
                   completed, collected, report>>

\* shutdown(wait=True) has joined the workers; the exception reaches main():
\* except KeyboardInterrupt: sys.exit(0)
InterruptExit ==
    /\ pc = "interrupted"
    /\ Queued = {} /\ Running = {}
    /\ pc' = "exited"
    /\ exit_code' = 0
    /\ UNCHANGED <<workers_arg, max_workers, parallel, repos, outcome, task, results,
                   completed, collected, report, auth, all_repos, filter_repos, enumerated>>

\* run(), sequential branch
RunSequential ==
    /\ pc = "found" /\ ~parallel
    /\ LET r == SequentialResults(repos, outcome)
       IN  /\ pc' = IF r.raised THEN "raised" ELSE "analyzed"
           /\ results' = r.results
    /\ UNCHANGED <<workers_arg, max_workers, parallel, repos, outcome, task, completed, collected, report>>

\* run(): if json_output: print(json.dumps(results, indent=2)); return
PrintJson ==
    /\ pc = "analyzed"
    /\ json_output
    /\ printed' = JsonDocument(results)
    /\ pc' = "reported"
    /\ UNCHANGED <<workers_arg, max_workers, parallel, repos, outcome, task, results,
                   completed, collected, report, json_output, output_file, quiet, files,
                   progress>>

\* run(): report = self.generate_report(results, days), then the report is
\* written to output_file and the JSON data to json_file, or printed
GenerateReport ==
    /\ pc = "analyzed"
    /\ ~json_output
    /\ report' = GenerateReportData(results)
    /\ IF output_file # NoOutputFile
       THEN /\ files' = WriteFile(WriteFile(files, output_file, ReportDocument(report')),
                                  JsonFile(output_file), JsonDocument(results))
            /\ printed' = printed
       ELSE /\ printed' = ReportDocument(report')
            /\ files' = files
    /\ pc' = "reported"
    /\ UNCHANGED <<workers_arg, max_workers, parallel, repos, outcome, task, results,
                   completed, collected, json_output, output_file, quiet, progress>>

\* The states in which the dispatcher has returned, over the full set of
\* analysis outcomes: generate_report is applied to each of them.
ReportInit ==
    /\ workers_arg = <<>>
    /\ max_workers = InitMaxWorkers(workers_arg)
    /\ parallel = TRUE
    /\ repos \in EntityLists
    /\ outcome \in [RepoIds -> ReportOutcomes]
    /\ \A r \in RepoIds \ Range(repos) : outcome[r] = Quiet
    /\ pc = "analyzed"
    /\ task = [i \in DOMAIN repos |-> "collected"]
    /\ results = SortByRepo(CollectInOrder(<<>>, repos, outcome))
    /\ completed = Len(repos)
    /\ collected = repos
    /\ report = NoReport

\* analyze_repos_parallel(repos) about to be called by run(), for every entity
\* list, worker count and set of raising analyses
DispatchInit ==
    /\ workers_arg \in {<<>>} \cup {<<n>> : n \in 1..MaxWorkersGiven}
    /\ max_workers = InitMaxWorkers(workers_arg)
    /\ parallel = TRUE
    /\ repos \in EntityLists
    /\ outcome \in [RepoIds -> {Raises, Quiet}]
    /\ \A r \in RepoIds \ Range(repos) : outcome[r] = Quiet
    /\ pc = "found"
    /\ task = <<>>
    /\ results = <<>>
    /\ completed = 0
    /\ collected = <<>>
    /\ report = NoReport

MonitorIdle ==
    /\ workers_arg = <<>>
    /\ max_workers = InitMaxWorkers(workers_arg)
    /\ parallel = TRUE
    /\ repos = <<>>
    /\ outcome = [r \in RepoIds |-> Quiet]
    /\ pc = "found"
    /\ task = <<>>
    /\ results = <<>>
    /\ completed = 0
    /\ collected = <<>>
    /\ report = NoReport

(***************************************************************************)
(* Support-board watcher: team membership                                  *)
(***************************************************************************)
Accounts == 1..MaxAccounts
NoAccountId == 0    \* a listed member without 'accountId'
Calls == 1..MaxCalls
NoArg == 0          \* a direct call of _get_team_members
CallArgs == {NoArg} \cup Accounts

\* team_id: None, "project:<key>", "group:<name>", or a Teams API team id
TeamIdKinds == {"none", "project", "group", "teams"}

\* __init__: team_id is None without team_name, else _lookup_team_id's
\* "project:<key>"; the other kinds are those _get_team_members provides for
ConstructedTeamIds == {"none", "project"}

Unset == [is_none |-> TRUE, members |-> <<>>]
Cached(list) == [is_none |-> FALSE, members |-> list]

\* if self._team_members is not None: return self._team_members
CacheHitIfTruthy(cache) == ~cache.is_none /\ cache.members # <<>>

CacheHit(cache) == ~cache.is_none

\* outcome of one resolution: the list cached and returned, the requests it
\* issued, or an exception that is not a RequestException
Resolved(list, n) == [raised |-> FALSE, failed |-> FALSE, members |-> list, requests |-> n]
ResolveRaised(n)  == [raised |-> TRUE,  failed |-> FALSE, members |-> <<>>, requests |-> n]
\* the except RequestException branch (or no organization id): [] is cached
ResolveFailed(n)  == [raised |-> FALSE, failed |-> TRUE,  members |-> <<>>, requests |-> n]

AccountIdsOf(entries) == SelectSeq(entries, LAMBDA e : e # NoAccountId)

Listings == UNION {[1..n -> Accounts \cup {NoAccountId}] : n \in 0..MaxListing}

PageOf(listing, offset, size) ==
    SubSeq(listing, offset + 1, IF offset + size < Len(listing) THEN offset + size
                                ELSE Len(listing))

\* the loop left after its first page, whatever the cursor
TeamsLoopFirstPageOnly(listing, size, offset, all_members, n, fail_at) ==
    Resolved(all_members \o AccountIdsOf(PageOf(listing, offset, size)), n + 1)

\* _get_team_members, Teams API loop: request number n with cursor at offset;
\* request fail_at fails with a RequestException ([] is cached)
RECURSIVE TeamsLoop(_, _, _, _, _, _)
TeamsLoop(listing, size, offset, all_members, n, fail_at) ==
    IF n = fail_at THEN ResolveFailed(n + 1)
    ELSE LET members == PageOf(listing, offset, size)
             all     == all_members \o AccountIdsOf(members)
             cursor  == IF offset + size < Len(listing) THEN offset + size ELSE 0
         IN  IF cursor # 0
             THEN TeamsLoop(listing, size, cursor, all, n + 1, fail_at)
             ELSE Resolved(all, n + 1)

\* _get_org_id and the Teams API branch of _get_team_members
OrgAnswers == {"ok", "unauthorized", "request_error", "no_resources"}
TeamsResolve(a) ==
    IF a.org # "ok" THEN ResolveFailed(1)
    ELSE TeamsLoop(a.listing, a.size, 0, <<>>, 1, a.fail_at)

\* the members gathered before the failing request returned instead of []
RECURSIVE GroupLoopKeepsGathered(_, _, _, _, _, _)
GroupLoopKeepsGathered(listing, size, startAt, all_members, n, fail_at) ==
    IF n = fail_at THEN Resolved(all_members, n)
    ELSE LET members == PageOf(listing, startAt, size)
             all     == all_members \o AccountIdsOf(members)
             isLast  == startAt + Len(members) >= Len(listing)
         IN  IF ~isLast
             THEN GroupLoopKeepsGathered(listing, size, startAt + Len(members), all,
                                         n + 1, fail_at)
             ELSE Resolved(all, n)

\* _get_group_members: request number n with startAt; request fail_at fails
\* with a RequestException ([] is cached)
RECURSIVE GroupLoop(_, _, _, _, _, _)
GroupLoop(listing, size, startAt, all_members, n, fail_at) ==
    IF n = fail_at THEN ResolveFailed(n)
    ELSE LET members == PageOf(listing, startAt, size)
             all     == all_members \o AccountIdsOf(members)
             isLast  == startAt + Len(members) >= Len(listing)
         IN  IF ~isLast
             THEN GroupLoop(listing, size, startAt + Len(members), all, n + 1, fail_at)
             ELSE Resolved(all, n)

GroupResolve(a) == GroupLoop(a.listing, a.size, 0, <<>>, 1, a.fail_at)

PagedAnswers ==
    [org : OrgAnswers, listing : Listings, size : 1..MaxPageSize, fail_at : 0..MaxListing]

\* _get_project_members.  roles: what the roles request does; member, admin:
\* the 'Member' and 'Administrator' role ("absent", "fail", or "ok" with the
\* user actors); users: what the user request of each account does.
RoleAnswers ==
    {[state |-> st, actors |-> {}] : st \in {"absent", "fail"}}
    \cup [state : {"ok"}, actors : SUBSET Accounts]
UserAnswers == {"email", "no_email", "not_200", "request_error"}
ProjectAnswers ==
    [roles : {"ok", "request_error", "not_object"}, member : RoleAnswers,
     admin : RoleAnswers, users : [Accounts -> UserAnswers]]

ActorsOf(role) == IF role.state = "ok" THEN role.actors ELSE {}
RoleRequests(role) == IF role.state = "absent" THEN 0 ELSE 1

\* the lists real_users can be: the accounts that have an e-mail address, in
\* the iteration order of the set all_account_ids
OrdersOf(S) == {s \in UNION {[1..n -> S] : n \in {Cardinality(S)}} : Range(s) = S}

ProjectResolve(a) ==
    CASE a.roles = "request_error" -> {ResolveFailed(1)}
      [] a.roles = "not_object"    -> {ResolveRaised(1)}
      [] a.roles = "ok" ->
           LET all_account_ids == ActorsOf(a.member) \cup ActorsOf(a.admin)
               real == {id \in all_account_ids : a.users[id] = "email"}
               n == 1 + RoleRequests(a.member) + RoleRequests(a.admin)
                      + Cardinality(all_account_ids)
           IN  {Resolved(list, n) : list \in OrdersOf(real)}

\* the outcomes of the membership resolution that _get_team_members begins
\* when the cache is unset and a team id is configured
ProjectResolutions == UNION {ProjectResolve(a) : a \in ProjectAnswers}
GroupResolutions   == {GroupResolve(a) : a \in PagedAnswers}
TeamsResolutions   == {TeamsResolve(a) : a \in PagedAnswers}

Resolutions(kind) ==
    CASE kind = "project" -> ProjectResolutions
      [] kind = "group"   -> GroupResolutions
      [] kind = "teams"   -> TeamsResolutions

IdleCall == [pc |-> "idle", account |-> NoArg, cached |-> FALSE, ret |-> <<>>]

TeamIdle ==
    /\ team_id = "none"
    /\ team_members = Unset
    /\ call = [c \in Calls |-> IdleCall]
    /\ resolutions = 0
    /\ requests_issued = 0
    /\ team_aborted = FALSE
    /\ membership = "unset"

\* __init__: the cache is unset
TeamInit ==
    /\ team_id \in TeamIdKinds
    /\ team_members = Unset
    /\ call = [c \in Calls |-> IdleCall]
    /\ resolutions = 0
    /\ requests_issued = 0
    /\ team_aborted = FALSE
    /\ membership = "unset"

NoCallInProgress == \A c \in Calls : call[c].pc # "fetching"

\* _is_team_member(account) / _get_team_members() up to its first remote
\* request: the cached list is returned, or [] is cached when no team id is
\* configured, or a resolution begins
Enter(c, account) ==
    /\ call[c].pc = "idle"
    /\ ~team_aborted
    /\ IF CacheHit(team_members)
       THEN /\ call' = [call EXCEPT ![c] = [pc |-> "done", account |-> account,
                                            cached |-> TRUE, ret |-> team_members.members]]
            /\ UNCHANGED <<team_members, resolutions, membership>>
       ELSE IF team_id = "none"
       THEN /\ team_members' = Cached(<<>>)
            /\ membership' = "unknown"
            /\ call' = [call EXCEPT ![c] = [pc |-> "done", account |-> account,
                                            cached |-> FALSE, ret |-> <<>>]]
            /\ UNCHANGED resolutions
       ELSE /\ call' = [call EXCEPT ![c] = [pc |-> "fetching", account |-> account,
                                            cached |-> FALSE, ret |-> <<>>]]
            /\ resolutions' = resolutions + 1
            /\ UNCHANGED <<team_members, membership>>
    /\ UNCHANGED <<team_id, requests_issued, team_aborted>>

\* the resolution of call c ends: the list is stored in self._team_members and
\* returned, or an exception other than RequestException leaves the call
Complete(c) ==
    /\ call[c].pc = "fetching"
    /\ \E r \in Resolutions(team_id) :
          /\ requests_issued' = requests_issued + r.requests
          /\ IF r.raised
             THEN /\ team_aborted' = TRUE
                  /\ call' = [call EXCEPT ![c].pc = "raised"]
                  /\ UNCHANGED <<team_members, membership>>
             ELSE /\ team_aborted' = team_aborted
                  /\ team_members' = Cached(r.members)
                  /\ membership' = IF r.failed THEN "unknown" ELSE "resolved"
                  /\ call' = [call EXCEPT ![c].pc = "done", ![c].ret = r.members]
    /\ UNCHANGED <<team_id, resolutions>>

(***************************************************************************)
(* Support-board watcher: get_items_by_comment_activity                    *)
(***************************************************************************)
\* A 'created' string "<local date and time><UTC offset>": local counts the
\* local clock reading, offset the hours east of UTC.  '' has local = 0.
Stamp(local, offset) == [local |-> local, offset |-> offset]
EmptyStamp == Stamp(0, 0)
NoDate == Stamp(0 - 1, 0)     \* last_comment_date = None

NoDays == 0 - 1               \* days_since_activity = None

\* the place of a 'created' string in the order of str: the local part is
\* compared first, then the offset; '' is before every other string
StringRank(ts) == ts.local * (MaxOffset + 1) + ts.offset

\* datetime.fromisoformat(ts.replace('Z', '+00:00')): the instant
Instant(ts) == ts.local - ts.offset

\* An issue of the search answer: its key, the instant of its 'created' and its
\* comments, each comment with its 'created' string and its author's accountId.
Comment(created, account) == [created |-> created, account |-> account]
IssueShapes ==
    {[created |-> 1,       comments |-> <<>>],
     [created |-> MaxTime, comments |-> <<>>],
     [created |-> 1,       comments |-> <<Comment(Stamp(1, 0), 1)>>],
     [created |-> 1,       comments |-> <<Comment(Stamp(1, 0), 1),
                                          Comment(Stamp(MaxTime, 0), MaxAccounts)>>],
     [created |-> 1,       comments |-> <<Comment(Stamp(1, MaxOffset), 1)>>],
     [created |-> MaxTime, comments |-> <<Comment(Stamp(MaxTime, 0), NoAccountId)>>],
     [created |-> 1,       comments |-> <<Comment(EmptyStamp, 1)>>]}
IssueLists == UNION {[1..n -> IssueShapes] : n \in 0..MaxIssues}

\* the analysis of one issue (the body of the `for issue in issues` loop);
\* members is what _get_team_members returns
AnalyzeIssue(key, issue, members, today) ==
    LET comments == issue.comments
        last_comment == comments[Len(comments)]
    IN  IF comments # <<>>
        THEN [key |-> key,
              created |-> issue.created,
              comment_count |-> Len(comments),
              last_comment_date |-> last_comment.created,
              last_comment_by_team |->
                  IF last_comment.account # NoAccountId
                  THEN IF last_comment.account \in Range(members) THEN "True" ELSE "False"
                  ELSE None,
              days_since_activity |->
                  IF last_comment.created # EmptyStamp
                  THEN today - Instant(last_comment.created) ELSE NoDays]
        ELSE [key |-> key,
              created |-> issue.created,
              comment_count |-> 0,
              last_comment_date |-> NoDate,
              last_comment_by_team |-> None,
              days_since_activity |-> today - issue.created]

\* sort_key: ('0', '') without last_comment_date, ('1', last_comment_date)
\* with one; the pair is encoded as one integer in its tuple order
SortKey(item) ==
    IF item.last_comment_date = NoDate THEN 0
    ELSE 1 + StringRank(item.last_comment_date)

\* items_with_analysis.sort(key=sort_key)
SortByCommentActivity(its) == StableSort(its, [i \in DOMAIN its |-> SortKey(its[i])])

ItemsWithAnalysis(iss, members, today) ==
    [i \in DOMAIN iss |-> AnalyzeIssue(i, iss[i], members, today)]

\* whether the loop calls _is_team_member at all
NeedsTeam(iss) ==
    \E i \in DOMAIN iss :
        iss[i].comments # <<>> /\ iss[i].comments[Len(iss[i].comments)].account # NoAccountId

\* format_report, Comment Activity Analysis: the filter of
\* items_needing_attention (a None or 0 days_since_activity is falsy)
NeedsAttentionFromThreeDays(item) ==
    \/ item.comment_count = 0
    \/ /\ item.days_since_activity # NoDays /\ item.days_since_activity # 0
       /\ item.days_since_activity >= AttentionDays

NeedsAttention(item) ==
    \/ item.comment_count = 0
    \/ /\ item.days_since_activity # NoDays /\ item.days_since_activity # 0
       /\ item.days_since_activity > AttentionDays

\* the mark after the last comment's author: `is True`, `is False`, else none
LastCommentBy(item) ==
    IF item.comment_count = 0 THEN "NO COMMENTS"
    ELSE IF item.last_comment_by_team = "True" THEN "[TEAM]"
    ELSE IF item.last_comment_by_team = "False" THEN "[CUSTOMER]"
    ELSE ""

NoActivityReport ==
    [needing |-> <<>>, marks |-> <<>>, no_comment_count |-> 0,
     customer_last_comment_count |-> 0]

\* format_report: the items needing attention (by key, in list order), the
\* mark shown with each, and the summary counts
FormatActivity(its) ==
    LET needing == SelectSeq(its, NeedsAttention)
    IN  [needing |-> [i \in DOMAIN needing |-> needing[i].key],
         marks   |-> [i \in DOMAIN needing |-> LastCommentBy(needing[i])],
         no_comment_count |->
             Cardinality({i \in DOMAIN its : its[i].comment_count = 0}),
         customer_last_comment_count |->
             Cardinality({i \in DOMAIN its : its[i].last_comment_by_team = "False"})]

ActivityIdle ==
    /\ issues = <<>>
    /\ now = MaxTime
    /\ items = <<>>
    /\ act_pc = "idle"
    /\ activity_report = NoActivityReport

ActivityInit ==
    /\ team_id \in ConstructedTeamIds
    /\ issues \in IssueLists
    /\ now \in MaxTime..(MaxTime + 4)
    /\ items = <<>>
    /\ act_pc = "start"
    /\ activity_report = NoActivityReport

\* get_items_by_comment_activity, after the search: the first _is_team_member
\* resolves the team (the later ones find the cache set), every issue is
\* analysed, the list is sorted and returned
GetItemsByCommentActivity ==
    /\ act_pc = "start"
    /\ IF ~NeedsTeam(issues) \/ CacheHit(team_members)
       THEN /\ items' = SortByCommentActivity(
                            ItemsWithAnalysis(issues, team_members.members, now))
            /\ act_pc' = "done"
            /\ UNCHANGED teamVars
       ELSE IF team_id = "none"
       THEN /\ team_members' = Cached(<<>>)
            /\ membership' = "unknown"
            /\ items' = SortByCommentActivity(ItemsWithAnalysis(issues, <<>>, now))
            /\ act_pc' = "done"
            /\ UNCHANGED <<team_id, call, resolutions, requests_issued, team_aborted>>
       ELSE \E r \in Resolutions(team_id) :
            /\ resolutions' = resolutions + 1
            /\ requests_issued' = requests_issued + r.requests
            /\ IF r.raised
               THEN /\ team_aborted' = TRUE
                    /\ act_pc' = "raised"
                    /\ items' = <<>>
                    /\ UNCHANGED <<team_members, membership>>
               ELSE /\ team_members' = Cached(r.members)
                    /\ membership' = IF r.failed THEN "unknown" ELSE "resolved"
                    /\ items' = SortByCommentActivity(
                                    ItemsWithAnalysis(issues, r.members, now))
                    /\ act_pc' = "done"
                    /\ UNCHANGED team_aborted
            /\ UNCHANGED <<team_id, call>>
    /\ UNCHANGED <<issues, now, activity_report>>

\* format_report(report), the section built from items_by_comment_activity
FormatReport ==
    /\ act_pc = "done"
    /\ activity_report' = FormatActivity(items)
    /\ act_pc' = "formatted"
    /\ UNCHANGED <<issues, now, items>>

(***************************************************************************)
(* Support-board watcher: main and generate_triage_report                  *)
(***************************************************************************)
RequiredEnv == {"JIRA_URL", "JIRA_EMAIL", "JIRA_API_TOKEN"}

\* the searches of generate_triage_report, by the report field they fill
SearchedFields ==
    {"triage_items", "todo_items", "in_progress_items", "waiting_for_customer_items",
     "stale_items", "recently_closed", "items_by_comment_activity"}

NoTriageReport ==
    [triage_items |-> <<>>, todo_items |-> <<>>, in_progress_items |-> <<>>,
     waiting_for_customer_items |-> <<>>, stale_items |-> <<>>,
     unacknowledged_comments |-> <<>>, recently_closed |-> <<>>,
     items_by_comment_activity |-> <<>>]

IssuesOf(n) == [i \in 1..n |-> i]

\* generate_triage_report: each list as its search returned it;
\* unacknowledged_comments holds the in-progress items for which
\* check_for_customer_comments returned a non-empty list
GenerateTriageReport(srch, cc) ==
    [triage_items |-> IssuesOf(srch["triage_items"]),
     todo_items |-> IssuesOf(srch["todo_items"]),
     in_progress_items |-> IssuesOf(srch["in_progress_items"]),
     waiting_for_customer_items |-> IssuesOf(srch["waiting_for_customer_items"]),
     stale_items |-> IssuesOf(srch["stale_items"]),
     unacknowledged_comments |->
         SelectSeq(IssuesOf(srch["in_progress_items"]), LAMBDA item : cc[item] > 0),
     recently_closed |-> IssuesOf(srch["recently_closed"]),
     items_by_comment_activity |-> IssuesOf(srch["items_by_comment_activity"])]

\* main: `if report.stale_items or report.unacknowledged_comments or
\* report.triage_items: return 1`, else `return 0`
BoardExitCodeIgnoringTriage(rep) ==
    IF rep.stale_items # <<>> \/ rep.unacknowledged_comments # <<>> THEN 1 ELSE 0

BoardExitCode(rep) ==
    IF \/ rep.stale_items # <<>>
       \/ rep.unacknowledged_comments # <<>>
       \/ rep.triage_items # <<>>
    THEN 1 ELSE 0

BoardIdle ==
    /\ env = [v \in RequiredEnv |-> TRUE]
    /\ searched = [f \in SearchedFields |-> 0]
    /\ customer_comments = [i \in 1..MaxListed |-> 0]
    /\ triage_report = NoTriageReport
    /\ board_pc = "idle"
    /\ board_exit = NoExit

\* a run of main() against every stubbed answer of the tracker; the answers
\* are read only when the credentials are present
BoardInit ==
    /\ env \in [RequiredEnv -> BOOLEAN]
    /\ searched \in [SearchedFields -> 0..MaxListed]
    /\ customer_comments \in [1..MaxListed -> 0..MaxListed]
    /\ (\E v \in RequiredEnv : ~env[v]) =>
          /\ searched = [f \in SearchedFields |-> 0]
          /\ customer_comments = [i \in 1..MaxListed |-> 0]
    /\ \A i \in 1..MaxListed : i > searched["in_progress_items"] => customer_comments[i] = 0
    /\ triage_report = NoTriageReport
    /\ board_pc = "start"
    /\ board_exit = NoExit

\* main up to the construction of the watcher: return 1 when a required
\* environment variable is missing
BoardMainStart ==
    /\ board_pc = "start"
    /\ IF \A v \in RequiredEnv : env[v]
       THEN board_pc' = "constructed" /\ board_exit' = board_exit
       ELSE board_pc' = "exited" /\ board_exit' = 1
    /\ UNCHANGED <<env, searched, customer_comments, triage_report>>

\* report = watcher.generate_triage_report(); an exception a search or a
\* comment check lets through leaves main without a return value
BoardGenerate ==
    /\ board_pc = "constructed"
    /\ \/ /\ triage_report' = GenerateTriageReport(searched, customer_comments)
          /\ board_pc' = "generated"
       \/ /\ triage_report' = triage_report
          /\ board_pc' = "raised"
    /\ UNCHANGED <<env, searched, customer_comments, board_exit>>

\* the report is formatted and printed, and main returns the exit code
BoardMainReturn ==
    /\ board_pc = "generated"
    /\ board_exit' = BoardExitCode(triage_report)
    /\ board_pc' = "exited"
    /\ UNCHANGED <<env, searched, customer_comments, triage_report>>

(***************************************************************************)
(* Idle states of the parts a specification leaves alone                   *)
(***************************************************************************)
MainEnumerated ==
    /\ auth = "ok"
    /\ all_repos = repos
    /\ filter_repos = <<>>
    /\ enumerated = TRUE
    /\ exit_code = NoExit

NoPaging ==
    [kind |-> "none", listing |-> <<>>, size |-> 1, fail_page |-> 0, done |-> FALSE,
     result |-> <<>>, cache |-> Unset, requests |-> 0]

\* _get_group_members before its first request: params has no 'startAt' (read
\* as 0), all_members = []
GroupLoopStart == [startAt |-> 0, requests |-> 0, all_members |-> <<>>, done |-> FALSE]

PagingIdle == paging = NoPaging /\ group_loop = GroupLoopStart

(***************************************************************************)
(* Support-board watcher: paginated member listings                        *)
(***************************************************************************)
\* the member entries a listing endpoint holds, served in pages of `size`: the
\* entry at position i is the member with account id i, or has no 'accountId'
PagedListings ==
    UNION {{[i \in 1..n |-> IF i \in S THEN i ELSE NoAccountId] : S \in SUBSET (1..n)} :
              n \in 0..MaxPagedItems}

\* fail_page: the page request that fails with a RequestException (0: none does)
PagingInit ==
    /\ group_loop = GroupLoopStart
    /\ \E kind \in {"teams", "group"}, listing \in PagedListings, size \in 1..MaxPageSize,
       fail_page \in 0..MaxFailPage :
        paging = [kind |-> kind, listing |-> listing, size |-> size,
                  fail_page |-> fail_page, done |-> FALSE, result |-> <<>>,
                  cache |-> Unset, requests |-> 0]

\* the pagination loop of _get_team_members (cursor) or _get_group_members
\* (startAt / isLast) with its except branch: the list is stored in
\* self._team_members and returned
ResolvePaged ==
    /\ ~paging.done
    /\ LET r == IF paging.kind = "teams"
                THEN TeamsLoop(paging.listing, paging.size, 0, <<>>, 0,
                               paging.fail_page - 1)
                ELSE GroupLoop(paging.listing, paging.size, 0, <<>>, 1, paging.fail_page)
       IN  paging' = [paging EXCEPT !.done = TRUE, !.result = r.members,
                                    !.cache = Cached(r.members),
                                    !.requests = r.requests]
    /\ UNCHANGED group_loop

\* A successful answer of /rest/api/3/group/member, whatever the server puts in
\* it: 'values' with up to MaxPageSize entries (TRUE: the entry has an
\* 'accountId') and 'isLast' true, false or absent.
GroupPages == UNION {[1..n -> BOOLEAN] : n \in 0..MaxPageSize}
IsLastValues == {"true", "false", "absent"}

\* data.get('isLast', True)
IsLast(v) == v # "false"

\* one iteration of the loop of _get_group_members: the request with the
\* current startAt is answered with `members` and `isLast`
GroupRequest ==
    /\ ~group_loop.done
    /\ group_loop.requests < MaxGroupRequests
    /\ \E members \in GroupPages, isLast \in IsLastValues :
          LET ids == [i \in DOMAIN members |-> group_loop.startAt + i]
              got == SelectSeq(ids, LAMBDA a : members[a - group_loop.startAt])
          IN  group_loop' =
                  [startAt     |-> IF ~IsLast(isLast)
                                   THEN group_loop.startAt + Len(members)
                                   ELSE group_loop.startAt,
                   requests    |-> group_loop.requests + 1,
                   all_members |-> group_loop.all_members \o got,
                   done        |-> IsLast(isLast)]
    /\ UNCHANGED paging

(***************************************************************************)
(* Specifications                                                          *)
(***************************************************************************)
\* The repository monitor's main().
Init == MonitorInit /\ OutputInit /\ ClientInit /\ TeamIdle /\ ActivityIdle /\ BoardIdle
    /\ PagingIdle

Next ==
    \/ Construct /\ UNCHANGED <<clientVars, teamVars, activityVars, boardVars, pagingVars, outputVars>>
    \/ Enumerate /\ UNCHANGED <<clientVars, teamVars, activityVars, boardVars, pagingVars, outputVars>>
    \/ MainExit /\ UNCHANGED <<clientVars, teamVars, activityVars, boardVars, pagingVars, outputVars>>
    \/ SubmitAll /\ UNCHANGED <<clientVars, teamVars, activityVars, mainVars, boardVars, pagingVars, outputVars>>
    \/ StartTask /\ UNCHANGED <<clientVars, teamVars, activityVars, mainVars, boardVars, pagingVars, outputVars>>
    \/ \E i \in DOMAIN task : FinishTask(i) /\ UNCHANGED <<clientVars, teamVars, activityVars, mainVars, boardVars, pagingVars, outputVars>>
    \/ \E i \in DOMAIN task : Collect(i) /\ UNCHANGED <<clientVars, teamVars, activityVars, mainVars, boardVars, pagingVars>>
    \/ Interrupt /\ UNCHANGED <<clientVars, teamVars, activityVars, mainVars, boardVars, pagingVars, outputVars>>
    \/ InterruptExit /\ UNCHANGED <<clientVars, teamVars, activityVars, boardVars, pagingVars, outputVars>>
    \/ RunSequential /\ UNCHANGED <<clientVars, teamVars, activityVars, mainVars, boardVars, pagingVars, outputVars>>
    \/ PrintJson /\ UNCHANGED <<clientVars, teamVars, activityVars, mainVars, boardVars, pagingVars>>
    \/ GenerateReport /\ UNCHANGED <<clientVars, teamVars, activityVars, mainVars, boardVars, pagingVars>>

Spec == Init /\ [][Next]_vars

\* generate_report applied to every result list the dispatcher returns.
InitReport == ReportInit /\ ReportOutputInit /\ ClientInit /\ TeamIdle /\ ActivityIdle
    /\ MainEnumerated /\ BoardIdle /\ PagingIdle

NextReport ==
    \/ PrintJson /\ UNCHANGED <<clientVars, teamVars, activityVars, mainVars, boardVars, pagingVars>>
    \/ GenerateReport /\ UNCHANGED <<clientVars, teamVars, activityVars, mainVars, boardVars, pagingVars>>

SpecReport == InitReport /\ [][NextReport]_vars

\* analyze_repos_parallel alone, uninterrupted, every analysis terminating: the
\* pool workers and the collecting thread take a step whenever one is possible.
InitDispatch == DispatchInit /\ DispatchOutputInit /\ ClientInit /\ TeamIdle /\ ActivityIdle
    /\ MainEnumerated /\ BoardIdle /\ PagingIdle

NextDispatch ==
    \/ SubmitAll /\ UNCHANGED <<clientVars, teamVars, activityVars, mainVars, boardVars, pagingVars, outputVars>>
    \/ StartTask /\ UNCHANGED <<clientVars, teamVars, activityVars, mainVars, boardVars, pagingVars, outputVars>>
    \/ \E i \in DOMAIN task : FinishTask(i) /\ UNCHANGED <<clientVars, teamVars, activityVars, mainVars, boardVars, pagingVars, outputVars>>
    \/ \E i \in DOMAIN task : Collect(i) /\ UNCHANGED <<clientVars, teamVars, activityVars, mainVars, boardVars, pagingVars>>

SpecDispatchFair == InitDispatch /\ [][NextDispatch]_vars /\ WF_vars(NextDispatch)

\* The Remote Query Client functions, each called with every remote answer.
InitClient == MonitorIdle /\ OutputIdle /\ ClientInit /\ TeamIdle /\ ActivityIdle
    /\ MainEnumerated /\ BoardIdle /\ PagingIdle

NextClient ==
    \/ CallRunGhCommand /\ UNCHANGED <<monitorVars, teamVars, activityVars, mainVars, boardVars, pagingVars, outputVars>>
    \/ CallRunGhApi /\ UNCHANGED <<monitorVars, teamVars, activityVars, mainVars, boardVars, pagingVars, outputVars>>
    \/ CallSearchJira /\ UNCHANGED <<monitorVars, teamVars, activityVars, mainVars, boardVars, pagingVars, outputVars>>
    \/ CallCheckForCustomerComments /\ UNCHANGED <<monitorVars, teamVars, activityVars, mainVars, boardVars, pagingVars, outputVars>>
    \/ CallGetRecentCommits /\ UNCHANGED <<monitorVars, teamVars, activityVars, mainVars, boardVars, pagingVars, outputVars>>
    \/ CallGetRecentPrs /\ UNCHANGED <<monitorVars, teamVars, activityVars, mainVars, boardVars, pagingVars, outputVars>>
    \/ CallGetDependabotAlerts /\ UNCHANGED <<monitorVars, teamVars, activityVars, mainVars, boardVars, pagingVars, outputVars>>

SpecClient == InitClient /\ [][NextClient]_vars

\* Team membership, the calls made one after the other (the watcher's own use).
InitTeam == MonitorIdle /\ OutputIdle /\ ClientInit /\ TeamInit /\ ActivityIdle
    /\ MainEnumerated /\ BoardIdle /\ PagingIdle

NextTeamSeq ==
    \/ \E c \in Calls, account \in CallArgs :
          NoCallInProgress /\ Enter(c, account) /\ UNCHANGED <<monitorVars, clientVars, activityVars, mainVars, boardVars, pagingVars, outputVars>>
    \/ \E c \in Calls : Complete(c) /\ UNCHANGED <<monitorVars, clientVars, activityVars, mainVars, boardVars, pagingVars, outputVars>>

SpecTeamSeq == InitTeam /\ [][NextTeamSeq]_vars

\* Team membership, the calls made by concurrent callers.
NextTeamConc ==
    \/ \E c \in Calls, account \in CallArgs :
          Enter(c, account) /\ UNCHANGED <<monitorVars, clientVars, activityVars, mainVars, boardVars, pagingVars, outputVars>>
    \/ \E c \in Calls : Complete(c) /\ UNCHANGED <<monitorVars, clientVars, activityVars, mainVars, boardVars, pagingVars, outputVars>>

SpecTeamConc == InitTeam /\ [][NextTeamConc]_vars

\* get_items_by_comment_activity applied to every search answer.
InitActivity == MonitorIdle /\ OutputIdle /\ ClientInit /\ TeamInit /\ ActivityInit
    /\ MainEnumerated /\ BoardIdle /\ PagingIdle

NextActivity ==
    \/ GetItemsByCommentActivity /\ UNCHANGED <<monitorVars, clientVars, mainVars, boardVars, pagingVars, outputVars>>
    \/ FormatReport /\ UNCHANGED <<monitorVars, clientVars, teamVars, mainVars, boardVars, pagingVars, outputVars>>

SpecActivity == InitActivity /\ [][NextActivity]_vars

\* The support-board watcher's main().
InitBoard ==
    MonitorIdle /\ OutputIdle /\ ClientInit /\ TeamIdle /\ ActivityIdle
    /\ MainEnumerated /\ BoardInit /\ PagingIdle

NextBoard ==
    \/ BoardMainStart
          /\ UNCHANGED <<monitorVars, clientVars, teamVars, activityVars, mainVars, pagingVars, outputVars>>
    \/ BoardGenerate
          /\ UNCHANGED <<monitorVars, clientVars, teamVars, activityVars, mainVars, pagingVars, outputVars>>
    \/ BoardMainReturn
          /\ UNCHANGED <<monitorVars, clientVars, teamVars, activityVars, mainVars, pagingVars, outputVars>>

SpecBoard == InitBoard /\ [][NextBoard]_vars

\* The pagination loops applied to every listing.
InitPaging ==
    MonitorIdle /\ OutputIdle /\ ClientInit /\ TeamIdle /\ ActivityIdle
    /\ MainEnumerated /\ BoardIdle /\ PagingInit

NextPaging ==
    ResolvePaged /\ UNCHANGED <<monitorVars, clientVars, teamVars, activityVars, mainVars, boardVars, outputVars>>

SpecPaging == InitPaging /\ [][NextPaging]_vars

\* The loop of _get_group_members against every successful server answer.
InitGroupLoop ==
    MonitorIdle /\ OutputIdle /\ ClientInit /\ TeamIdle /\ ActivityIdle
    /\ MainEnumerated /\ BoardIdle /\ PagingIdle

NextGroupLoop ==
    GroupRequest /\ UNCHANGED <<monitorVars, clientVars, teamVars, activityVars, mainVars, boardVars, outputVars>>

SpecGroupLoop == InitGroupLoop /\ [][NextGroupLoop]_vars

(***************************************************************************)
(* Claims about the dispatcher and run()                                   *)
(***************************************************************************)
\* what analyze_repos_parallel returns when the futures are collected in
\* submission order
ConcurrentResults(rs, outc) == SortByRepo(CollectInOrder(<<>>, rs, outc))

ResultsOf(repo) == {j \in DOMAIN results : results[j].repo = repo}

\* C1: in analyze_repos_parallel every entity gets exactly one result, whatever
\* subset of the analyses raises: a raising entity the synthetic result (empty
\* lists, both flags false, 'error' populated), any other entity its normal
\* analysis result; the batch is never aborted, and while it is in flight a
\* task can always be started, finished or collected.
C1_FailureIsolated ==
    parallel =>
        /\ pc # "raised"
        /\ pc = "dispatch" =>
              \/ Queued # {} /\ WorkerFree(Cardinality(Running), max_workers)
              \/ Running # {}
              \/ \E i \in DOMAIN task : task[i] = "finished"
        /\ pc = "analyzed" =>
              /\ Len(results) = Len(repos)
              /\ \A i \in DOMAIN repos :
                    /\ Cardinality(ResultsOf(repos[i])) = 1
                    /\ \A j \in ResultsOf(repos[i]) :
                          IF outcome[repos[i]].raises
                          THEN /\ results[j].recent_commits = <<>>
                               /\ results[j].recent_prs = <<>>
                               /\ results[j].dependabot_alerts = <<>>
                               /\ ~results[j].has_activity
                               /\ ~results[j].has_vulnerabilities
                               /\ results[j].error # NoError
                          ELSE /\ results[j] = AnalyzeRepo(repos[i], outcome[repos[i]])
                               /\ results[j].error = NoError

C1_Witness ==
    /\ parallel /\ pc = "analyzed"
    /\ \E i, k \in DOMAIN repos : outcome[repos[i]].raises /\ ~outcome[repos[k]].raises

\* C2: for the same entity list and the same stubbed analysis outcomes, raising
\* ones included, a finished run() holds the same result list in sequential
\* mode as in concurrent mode.
C2_ModesAgree ==
    pc \in {"analyzed", "raised"} =>
        /\ pc = "analyzed"
        /\ results = ConcurrentResults(repos, outcome)

\* C3: whatever order the worker tasks complete in, the list returned by
\* analyze_repos_parallel is ascending by 'repo', and it is the same list for
\* every schedule of the same inputs.
C3_SortedForEverySchedule ==
    (parallel /\ pc = "analyzed") =>
        /\ \A i, j \in DOMAIN results : i < j => results[i].repo < results[j].repo
        /\ results = ConcurrentResults(repos, outcome)

C3_Witness ==
    /\ parallel /\ pc = "analyzed"
    /\ Len(collected) >= 2
    /\ \E i, j \in DOMAIN collected : i < j /\ collected[i] > collected[j]

\* C4: the number of analyses started and not yet finished never exceeds
\* max_workers, which is 10 when the caller gives none.
C4_BoundedWorkers ==
    /\ workers_arg = <<>> => max_workers = 10
    /\ workers_arg # <<>> => max_workers = workers_arg[1]
    /\ Cardinality(Running) <= max_workers

C4_Witness ==
    /\ pc = "dispatch"
    /\ Cardinality(Running) = max_workers
    /\ Queued # {}

(***************************************************************************)
(* Claims about generate_report                                            *)
(***************************************************************************)
ReposOf(bucket) == {bucket[i].repo : i \in DOMAIN bucket}
ErroredRepos == {results[i].repo : i \in {k \in DOMAIN results : HasError(results[k])}}
PosInResults(repo) == CHOOSE i \in DOMAIN results : results[i].repo = repo

\* C5: for every result list the dispatcher can produce, the empty one
\* included, generate_report puts every entity in exactly one of the classes
\* high_priority, vulnerable_only, active_clean, quiet, errored: they are
\* pairwise disjoint and their sizes sum to the number of entities.
C5_PartitionExactlyOnce ==
    report.generated =>
        LET classes == <<ReposOf(report.high_priority), ReposOf(report.vulnerable_only),
                         ReposOf(report.active_clean), ReposOf(report.quiet_repos),
                         ErroredRepos>>
        IN  /\ \A a, b \in 1..5 : a # b => classes[a] \cap classes[b] = {}
            /\ UNION {classes[a] : a \in 1..5} = Range(repos)
            /\ report.errors = Cardinality(ErroredRepos)
            /\ Len(report.high_priority) + Len(report.vulnerable_only)
                  + Len(report.active_clean) + Len(report.quiet_repos) + report.errors
               = Len(results)
            /\ report.total_repos = Len(repos)

C5_Witness ==
    /\ report.generated
    /\ report.errors > 0
    /\ Len(report.quiet_repos) > 0
    /\ Len(report.high_priority) + Len(report.vulnerable_only) + Len(report.active_clean) > 0

C5_WitnessEmpty == report.generated /\ results = <<>>

DescendingStable(bucket) ==
    \A i, j \in DOMAIN bucket :
        i < j => \/ NumAlerts(bucket[i]) > NumAlerts(bucket[j])
                 \/ /\ NumAlerts(bucket[i]) = NumAlerts(bucket[j])
                    /\ PosInResults(bucket[i].repo) < PosInResults(bucket[j].repo)

\* C6: the high_priority and the vulnerable_only bucket are each listed by
\* descending alert count, entities with equal counts in their order of the
\* input list.
C6_BucketsDescendingStable ==
    report.generated =>
        /\ DescendingStable(report.high_priority)
        /\ DescendingStable(report.vulnerable_only)
        /\ ReposOf(report.high_priority)
             = {results[i].repo : i \in {k \in DOMAIN results : IsHighPriority(results[k])}}
        /\ ReposOf(report.vulnerable_only)
             = {results[i].repo : i \in {k \in DOMAIN results : IsVulnerableOnly(results[k])}}

TieAndReorder(bucket) ==
    /\ \E i, j \in DOMAIN bucket :
          i < j /\ NumAlerts(bucket[i]) = NumAlerts(bucket[j])
    /\ \E i, j \in DOMAIN bucket :
          i < j /\ PosInResults(bucket[i].repo) > PosInResults(bucket[j].repo)

C6_Witness ==
    /\ report.generated
    /\ TieAndReorder(report.high_priority) \/ TieAndReorder(report.vulnerable_only)

(***************************************************************************)
(* Claims about the Remote Query Client                                    *)
(***************************************************************************)
\* C7: a Remote Query Client call never raises to its caller, whatever the
\* remote call does.
C7_ClientNeverRaises == client_result.status # "raised"

(***************************************************************************)
(* Claims about team membership                                            *)
(***************************************************************************)
DoneCalls == {c \in Calls : call[c].pc = "done"}

\* C8: over any sequence of _is_team_member / _get_team_members calls of one
\* run the membership resolution is performed at most once, whether it
\* succeeded, found no members or failed with a request error; every later
\* call returns the cached list and issues no remote request.
C8_ResolvedAtMostOnce ==
    /\ [](/\ resolutions <= 1
          /\ Cardinality({c \in Calls : call[c].pc # "idle" /\ ~call[c].cached}) <= 1
          /\ \A c \in DoneCalls : call[c].ret = team_members.members
          /\ resolutions = 0 => requests_issued = 0)
    /\ [][~team_members.is_none =>
            /\ requests_issued' = requests_issued
            /\ resolutions' = resolutions
            /\ team_members' = team_members]_vars

C8_Witness ==
    /\ resolutions = 1
    /\ requests_issued > 0
    /\ team_members = Cached(<<>>)
    /\ \E c, d \in DoneCalls : ~call[c].cached /\ call[d].cached

\* C9: when callers invoke _get_team_members concurrently while the cache is
\* unset, one membership fetch is performed and every caller gets its result.
C9_OneFetchForConcurrentCallers ==
    /\ resolutions <= 1
    /\ \A c, d \in DoneCalls : call[c].ret = call[d].ret

(***************************************************************************)
(* Claims about get_items_by_comment_activity                              *)
(***************************************************************************)
\* C10: in the list get_items_by_comment_activity returns, every item with zero
\* comments precedes every item with comments, whatever the creation dates,
\* and the items with comments are in ascending order of the instant of their
\* last comment (oldest first).
C10_NoCommentFirstThenOldest ==
    act_pc = "done" =>
        /\ Len(items) = Len(issues)
        /\ {items[i].key : i \in DOMAIN items} = DOMAIN issues
        /\ \A i \in DOMAIN items :
              items[i].comment_count = Len(issues[items[i].key].comments)
        /\ \A i, j \in DOMAIN items :
              i < j =>
                /\ ~(items[i].comment_count > 0 /\ items[j].comment_count = 0)
                /\ (/\ items[i].comment_count > 0 /\ items[j].comment_count > 0
                    /\ items[i].last_comment_date # EmptyStamp
                    /\ items[j].last_comment_date # EmptyStamp)
                      => Instant(items[i].last_comment_date)
                            <= Instant(items[j].last_comment_date)

\* what the sort does establish: zero-comment items first, then ascending in
\* the order of the 'created' strings
SortedByCreatedString ==
    act_pc = "done" =>
        \A i, j \in DOMAIN items :
            i < j =>
              /\ ~(items[i].comment_count > 0 /\ items[j].comment_count = 0)
              /\ (items[i].comment_count > 0 /\ items[j].comment_count > 0)
                    => StringRank(items[i].last_comment_date)
                          <= StringRank(items[j].last_comment_date)

\* the same, for answers whose timestamps all carry one UTC offset
OldestFirstWithOneOffset ==
    (act_pc = "done" /\ \A i, j \in DOMAIN items :
                            (items[i].comment_count > 0 /\ items[j].comment_count > 0)
                                => items[i].last_comment_date.offset
                                      = items[j].last_comment_date.offset)
        => \A i, j \in DOMAIN items :
              (/\ i < j
               /\ items[i].comment_count > 0 /\ items[j].comment_count > 0
               /\ items[i].last_comment_date # EmptyStamp
               /\ items[j].last_comment_date # EmptyStamp)
                 => Instant(items[i].last_comment_date)
                       <= Instant(items[j].last_comment_date)

(***************************************************************************)
(* Claims about format_report                                              *)
(***************************************************************************)
\* C11: format_report counts an item of items_by_comment_activity as needing
\* attention if and only if its comment_count is 0 or its days_since_activity
\* is greater than 3; an item with comments whose days_since_activity is 3 or
\* less, or undetermined, is not counted.
C11_NeedsAttentionIff ==
    act_pc = "formatted" =>
        /\ \A i \in DOMAIN items :
              (items[i].key \in Range(activity_report.needing))
                <=> \/ items[i].comment_count = 0
                    \/ /\ items[i].days_since_activity # NoDays
                       /\ items[i].days_since_activity > 3
        /\ Len(activity_report.needing)
              = Cardinality({i \in DOMAIN items :
                    \/ items[i].comment_count = 0
                    \/ /\ items[i].days_since_activity # NoDays
                       /\ items[i].days_since_activity > 3})

C11_Witness ==
    /\ act_pc = "formatted"
    /\ \E i, j, k \in DOMAIN items :
          /\ items[i].comment_count > 0 /\ items[i].days_since_activity = 3
          /\ items[i].key \notin Range(activity_report.needing)
          /\ items[j].comment_count > 0 /\ items[j].days_since_activity = 4
          /\ items[j].key \in Range(activity_report.needing)
          /\ items[k].comment_count > 0 /\ items[k].days_since_activity = NoDays
          /\ items[k].key \notin Range(activity_report.needing)

LastAccount(item) ==
    LET comments == issues[item.key].comments IN comments[Len(comments)].account

\* C12: for an item with comments, last_comment_by_team is true iff the last
\* comment author's account id is in the resolved team-membership set; when
\* the membership is unknown (no team configured, or the fetch failed) the
\* value is not false, and the item is not reported as a customer comment.
C12_UnknownMembershipNotFalse ==
    act_pc \in {"done", "formatted"} =>
        \A i \in DOMAIN items :
            (items[i].comment_count > 0 /\ LastAccount(items[i]) # NoAccountId) =>
                /\ membership = "resolved" =>
                      /\ items[i].last_comment_by_team \in {"True", "False"}
                      /\ items[i].last_comment_by_team = "True"
                            <=> LastAccount(items[i]) \in Range(team_members.members)
                /\ membership # "resolved" =>
                      /\ items[i].last_comment_by_team # "False"
                      /\ act_pc = "formatted" =>
                            /\ activity_report.customer_last_comment_count = 0
                            /\ "[CUSTOMER]" \notin Range(activity_report.marks)

(***************************************************************************)
(* Claims about check_for_customer_comments                                *)
(***************************************************************************)
CheckedComments == client_call.answer.comments

ExternalAuthor(c) == c.email # "" /\ c.email # InternalDomain

\* C13: check_for_customer_comments returns exactly the comments whose author
\* is external and for which no comment of the issue by an internal-domain
\* author has a strictly later timestamp, each once and in the issue's order.
C13_UnacknowledgedExactly ==
    (/\ client_call.fn = "check_for_customer_comments"
     /\ client_call.answer.kind = "ok_object"
     /\ client_result.status = "returned")
        => /\ Range(client_result.list) =
                {i \in DOMAIN CheckedComments :
                    /\ ExternalAuthor(CheckedComments[i])
                    /\ ~\E j \in DOMAIN CheckedComments :
                          /\ CheckedComments[j].email = InternalDomain
                          /\ CheckedComments[j].created > CheckedComments[i].created}
           /\ \A m, n \in DOMAIN client_result.list :
                 m < n => client_result.list[m] < client_result.list[n]

\* an external comment with a later internal comment, and one with an
\* internal comment of the same timestamp
C13_Witness ==
    /\ client_call.fn = "check_for_customer_comments"
    /\ client_call.answer.kind = "ok_object"
    /\ client_result.status = "returned"
    /\ \E i, j, k \in DOMAIN CheckedComments :
          /\ ExternalAuthor(CheckedComments[i]) /\ ExternalAuthor(CheckedComments[j])
          /\ CheckedComments[k].email = InternalDomain
          /\ CheckedComments[i].created < CheckedComments[k].created
          /\ CheckedComments[j].created = CheckedComments[k].created
          /\ client_result.list = <<j>>

\* C14: check_for_customer_comments completes without raising for every
\* comment list, missing timestamps included, a comment without timestamp
\* being later than no comment and no comment being later than it.
C14_MissingTimestampTolerated ==
    (/\ client_call.fn = "check_for_customer_comments"
     /\ client_call.answer.kind = "ok_object")
        => /\ client_result.status = "returned"
           /\ Range(client_result.list) =
                {i \in DOMAIN CheckedComments :
                    /\ ExternalAuthor(CheckedComments[i])
                    /\ ~\E j \in DOMAIN CheckedComments :
                          /\ CheckedComments[j].email = InternalDomain
                          /\ CheckedComments[j].created # NoTimestamp
                          /\ CheckedComments[i].created # NoTimestamp
                          /\ CheckedComments[j].created > CheckedComments[i].created}

(***************************************************************************)
(* Claims about the support-board watcher's main                           *)
(***************************************************************************)
\* C15: with the credentials present, main() returns a non-zero exit code if
\* and only if stale_items, unacknowledged_comments or triage_items of the
\* report is non-empty, whatever the other report lists contain.
C15_BoardExitCode ==
    (board_pc = "exited" /\ \A v \in RequiredEnv : env[v]) =>
        /\ board_exit \in {0, 1}
        /\ board_exit # 0 <=>
              \/ Len(triage_report.stale_items) > 0
              \/ Len(triage_report.unacknowledged_comments) > 0
              \/ Len(triage_report.triage_items) > 0

\* only triage items flagged, every other list non-empty or empty as it may
C15_Witness ==
    /\ board_pc = "exited" /\ \A v \in RequiredEnv : env[v]
    /\ triage_report.triage_items # <<>>
    /\ triage_report.stale_items = <<>>
    /\ triage_report.unacknowledged_comments = <<>>
    /\ triage_report.in_progress_items # <<>>
    /\ board_exit = 1

(***************************************************************************)
(* Claims about the repository monitor's process                           *)
(***************************************************************************)
Flagged(res) ==
    \E i \in DOMAIN res : res[i].has_vulnerabilities \/ res[i].has_activity

\* C16: the repository-monitor process exits with a non-zero code whenever the
\* completed run's results contain an entity with has_vulnerabilities or
\* has_activity true, and with zero when no entity is flagged.
C16_ExitCodeSignalsAttention ==
    (pc = "exited" /\ report.generated) =>
        (exit_code # 0 <=> Flagged(results))

\* C17: when the enumeration yields zero entities the run aborts with a
\* non-zero exit code and produces no report; nothing is dispatched.
C17_ZeroEntitiesAbort ==
    (enumerated /\ repos = <<>>) =>
        /\ pc \in {"found", "exited"}
        /\ ~report.generated
        /\ pc = "exited" => exit_code \notin {0, NoExit}

\* C18: if the startup authentication probe fails, is missing or times out,
\* the process exits non-zero and no enumeration query and no analysis is ever
\* issued; every remote query happens after a successful probe.
C18_FailFastOnAuth ==
    /\ auth # "ok" =>
          /\ pc \in {"start", "exited"}
          /\ pc = "exited" => exit_code = 1
          /\ ~enumerated /\ repos = <<>> /\ task = <<>> /\ results = <<>>
          /\ ~report.generated
    /\ (enumerated \/ task # <<>> \/ results # <<>>) => CheckGhCli(auth)
    /\ pc \notin {"start", "exited"} => auth = "ok"

C18_Witness ==
    /\ auth = "timeout"
    /\ pc = "exited"
    /\ exit_code = 1
    /\ ~enumerated

(***************************************************************************)
(* Claims about the severity tally                                         *)
(***************************************************************************)
AlertsOfSeverity(res, sev) ==
    SumSeq([i \in DOMAIN res |->
              Cardinality({k \in DOMAIN res[i].dependabot_alerts :
                              res[i].dependabot_alerts[k] = sev})])

LinesOfSeverity(sev) ==
    {k \in DOMAIN report.severity_lines : report.severity_lines[k].severity = sev}

\* C19: the severity tally of generate_report gives, for each of critical,
\* high, medium and low, the number of alerts of that severity summed over all
\* entities; a severity with no alert is omitted from the breakdown, the
\* severities shown are in that order, and the breakdown section is absent
\* when there are no alerts at all.
C19_SeverityTally ==
    report.generated =>
        /\ \A sev \in Range(SeverityOrder) :
              /\ AlertsOfSeverity(results, sev) = 0 => LinesOfSeverity(sev) = {}
              /\ AlertsOfSeverity(results, sev) > 0 =>
                    /\ Cardinality(LinesOfSeverity(sev)) = 1
                    /\ \A k \in LinesOfSeverity(sev) :
                          report.severity_lines[k].count = AlertsOfSeverity(results, sev)
        /\ \A k, l \in DOMAIN report.severity_lines :
              k < l => \E m, n \in DOMAIN SeverityOrder :
                          /\ m < n
                          /\ SeverityOrder[m] = report.severity_lines[k].severity
                          /\ SeverityOrder[n] = report.severity_lines[l].severity
        /\ (\A i \in DOMAIN results : results[i].dependabot_alerts = <<>>)
              => ~report.severity_section /\ report.severity_lines = <<>>

\* alerts [critical, high, high, low] over the entities: medium is omitted
C19_Witness ==
    /\ pc = "reported"
    /\ report.severity_lines =
          << [severity |-> "critical", count |-> 1],
             [severity |-> "high", count |-> 2],
             [severity |-> "low", count |-> 1] >>
    /\ report.total_alerts = 4

(***************************************************************************)
(* Claims about paginated member listings                                  *)
(***************************************************************************)
\* the least number of pages of `size` entries that hold n entries (one page
\* is requested even for an empty listing)
PagesNeeded(n, size) == IF n = 0 THEN 1 ELSE (n + size - 1) \div size

\* one of the page requests the loop makes is the one that fails
PageRequestFailed ==
    paging.fail_page \in 1..PagesNeeded(Len(paging.listing), paging.size)

\* C20: for a paginated member listing whose pages all succeed, the resolved
\* member list is the account ids of all pages in page order and within-page
\* order, the cursor / offset being followed until the last page.
C20_PagesMergedInOrder ==
    (paging.done /\ ~PageRequestFailed) =>
        /\ paging.result = SelectSeq(paging.listing, LAMBDA e : e # NoAccountId)
        /\ paging.requests = PagesNeeded(Len(paging.listing), paging.size)

\* 3 pages of 2 items give the 6 items in their original order
C20_Witness ==
    /\ paging.done /\ ~PageRequestFailed
    /\ paging.kind = "teams"
    /\ paging.size = 2
    /\ paging.requests = 3
    /\ Len(paging.result) = 6
    /\ paging.result = paging.listing
    /\ paging.result[1] # paging.result[2]

\* C26: in both paginated listings (Teams cursor listing, group offset
\* listing) a failing page request, the first or a later one, ends the loop at
\* that request, discards the members gathered from the earlier pages, and the
\* empty list is returned and stored in the cache, where later calls find it;
\* a partial member list is never returned.
C26_FailedListingIsEmpty ==
    (paging.done /\ PageRequestFailed) =>
        /\ paging.result = <<>>
        /\ paging.cache = Cached(<<>>)
        /\ CacheHit(paging.cache)
        /\ paging.requests = paging.fail_page

\* the third page fails after two pages with members were gathered
C26_Witness ==
    /\ paging.done /\ PageRequestFailed
    /\ paging.kind = "group"
    /\ paging.fail_page = 3
    /\ paging.size = 2
    /\ \A i \in 1..4 : paging.listing[i] = i
    /\ paging.result = <<>>

\* C30: in _get_group_members every further page request uses a strictly
\* larger startAt than the request before it, whatever the successful answer
\* was (an empty page reporting isLast = false included), so the loop cannot
\* repeat a request for ever.
C30_StartAtStrictlyIncreases ==
    [][(group_loop'.requests > group_loop.requests /\ ~group_loop'.done)
          => group_loop'.startAt > group_loop.startAt]_vars

(***************************************************************************)
(* Claims about the outputs of run()                                       *)
(***************************************************************************)
\* the result list as the stubbed upstream answers alone determine it: the
\* enumerated and filtered entities in name order, each with the result of its
\* stubbed analysis
ResultsByInput ==
    LET rs == FilterRepos(all_repos, filter_repos)
    IN  [i \in DOMAIN rs |->
            IF outcome[rs[i]].raises THEN FailedResult(rs[i])
            ELSE AnalyzeRepo(rs[i], outcome[rs[i]])]

\* C21: the JSON document a run prints is a function of the stubbed upstream
\* answers alone (the enumeration, the filter and each entity's analysis
\* outcome): the same for every worker count and every order in which the
\* worker tasks start, finish and are collected, so two runs against the same
\* answers print the same document; a run asked for JSON that returns has
\* printed it.
C21_JsonOutputDetermined ==
    /\ printed.kind = "json" => printed = JsonDocument(ResultsByInput)
    /\ (json_output /\ pc = "reported") => printed.kind = "json"

C21_Witness ==
    /\ json_output /\ parallel /\ pc = "reported"
    /\ printed.kind = "json"
    /\ Len(printed.results) = MaxRepos
    /\ collected # repos
    /\ collected[1] = repos[MaxRepos]
    /\ \E i \in DOMAIN repos : outcome[repos[i]].raises

\* C27: every entity result in the list handed to generate_report, whether
\* analyze_repo built it or the dispatcher synthesized it for a failed entity,
\* has has_activity = (recent_commits non-empty or recent_prs non-empty) and
\* has_vulnerabilities = (dependabot_alerts non-empty).
C27_DerivedFlags ==
    \A i \in DOMAIN results :
        /\ results[i].has_activity <=>
              (results[i].recent_commits # <<>> \/ results[i].recent_prs # <<>>)
        /\ results[i].has_vulnerabilities <=> (results[i].dependabot_alerts # <<>>)

C27_Witness ==
    /\ pc = "reported" /\ report.generated
    /\ \E i, j, k \in DOMAIN results :
          /\ results[i].error # NoError
          /\ results[j].recent_commits = <<>> /\ results[j].has_activity
          /\ results[k].has_vulnerabilities

\* C28: in non-quiet mode the dispatcher has printed a progress report for
\* every completion collected so far whose running count is a multiple of 10 or
\* equals the total, whether the completing task succeeded or failed.
C28_ProgressAtEveryMark ==
    (parallel /\ ~quiet) =>
        \A k \in 1..completed :
            (k % ProgressEvery = 0 \/ k = Len(repos)) =>
                \E j \in DOMAIN progress : progress[j] = k

\* the number of results carrying the repo field r
ResultCount(r) == Cardinality({j \in DOMAIN results : results[j].repo = r})
EntityCount(r) == Cardinality({i \in DOMAIN repos : repos[i] = r})

\* C29: when every analysis terminates analyze_repos_parallel terminates; the
\* list it returns has as many results as there are entities and the 'repo'
\* fields are the input list as a multiset; after each collected completion
\* `completed` equals the number of results appended so far.
C29_TerminatesWithOneResultEach ==
    /\ [](completed = Len(results))
    /\ [](pc = "analyzed" =>
            /\ Len(results) = Len(repos)
            /\ \A r \in RepoIds : ResultCount(r) = EntityCount(r))
    /\ (pc = "found") ~> (pc = "analyzed")

C29_Witness ==
    /\ pc = "analyzed"
    /\ Len(repos) = MaxRepos
    /\ completed = MaxRepos
    /\ collected # repos
    /\ \E i, k \in DOMAIN repos : outcome[repos[i]].raises /\ ~outcome[repos[k]].raises

\* C22: once an interrupt has reached the dispatcher no analysis that had not
\* started is started any more, and no file is created or written: files are
\* written only after every entity result has been collected.
C22_InterruptStopsDispatch ==
    [][/\ pc = "interrupted" =>
             \A i \in DOMAIN task : task[i] = "queued" => task'[i] = "queued"
       /\ files' # files => (pc = "analyzed" /\ \A i \in DOMAIN task : task[i] = "collected")
       /\ pc \in {"dispatch", "interrupted"} => files' = NoFiles]_vars

\* C24: a run given an output file, JSON-to-stdout not requested, leaves both
\* artifacts: the narrative report at the given path and the JSON document at
\* the path derived from it by the extension substitution; the two paths are
\* distinct, so the narrative file still holds the narrative report.
C24_BothArtifactsKept ==
    (pc = "reported" /\ output_file # NoOutputFile /\ ~json_output) =>
        /\ JsonFile(output_file) # output_file
        /\ {output_file, JsonFile(output_file)} \subseteq DOMAIN files
        /\ files[output_file] = ReportDocument(report)
        /\ files[JsonFile(output_file)] = JsonDocument(results)

(***************************************************************************)
(* Claims about the Remote Query Client's time limits and query results    *)
(***************************************************************************)
\* C23: every Remote Query Client call carries a timeout: when the remote
\* service never responds the call still ends, returning a payload or an empty
\* result to its caller.
C23_EveryCallTimesOut ==
    client_call.answer.kind = "no_response" => client_result.status = "returned"

QueryFunctions == {"get_recent_commits", "get_recent_prs", "get_dependabot_alerts"}

\* the positions of the records of the output that lie inside the time window
RecordsInWindow(lines) == SelectSeq([i \in DOMAIN lines |-> i], LAMBDA i : lines[i] # "old")

\* C25: get_recent_commits, get_recent_prs and get_dependabot_alerts return
\* either every record the remote returned or the empty list; when a line or a
\* record of the output is malformed they do not return the remaining records
\* as a successful partial list.
C25_NeverPartiallyPopulated ==
    (client_call.fn \in QueryFunctions /\ client_result.status = "returned") =>
        /\ client_result.list \in {<<>>, RecordsInWindow(client_call.answer.lines)}
        /\ (\E i \in DOMAIN client_call.answer.lines :
                client_call.answer.lines[i] \in MalformedShapes)
              => client_result.list = <<>>

====
